---- MODULE Spec2Model ----
(***************************************************************************)
(* Proposal reconciliation of particl-market:                              *)
(* ProposalActionService.processProposalReceivedEvent, its helper          *)
(* createProposalResult and the ProposalReceivedEvent listener.            *)
(*                                                                         *)
(* Every await of the handler is one step: the awaited repository or chain *)
(* call either answers or rejects.  The services the handler calls         *)
(* (ProposalService, ProposalResultService, ProposalOptionResultService,   *)
(* VoteService, VoteActionService, ProposalFactory) are modelled as the    *)
(* repository and oracle the specification describes.                      *)
(***************************************************************************)
EXTENDS Integers, Sequences, FiniteSets, TLC

\* ---------------------------------------------------------------- bounds
MaxDeliveries == 2      \* events emitted in one behaviour
MaxFailures == 1        \* rejected repository / oracle calls in one behaviour

\* ------------------------------------------------------------- constants
ITEM_VOTE == "ITEM_VOTE"
PUBLIC_VOTE == "PUBLIC_VOTE"
PROCESSED == "PROCESSED"
WAITING == "WAITING"
PARSING_FAILED == "PARSING_FAILED"
RECEIVED == "RECEIVED"
THROWN == "THROWN"
REMOVE == "REMOVE"
VoteWeight == 1

\* the invocations of the listener that may be in flight; one at a time
\* under sequential delivery
Invocations == {1, 2}
Handlers == {1}

\* ---------------------------------------------------------------- inputs
\* A ProposalReceivedEvent: the ProposalMessage fields and the envelope's
\* createdAt (the claimed origin time of the message).
P1 == [hash |-> "h1", item |-> "i1", type |-> ITEM_VOTE, submitter |-> "a",
       createdAt |-> 10, options |-> <<"KEEP", "REMOVE">>]
P2 == [hash |-> "h2", item |-> "i1", type |-> ITEM_VOTE, submitter |-> "b",
       createdAt |-> 5, options |-> <<"KEEP", "REMOVE">>]
P3 == [hash |-> "h3", item |-> "i1", type |-> ITEM_VOTE, submitter |-> "a",
       createdAt |-> 7, options |-> <<"YES", "NO">>]
P4 == [hash |-> "h4", item |-> "", type |-> PUBLIC_VOTE, submitter |-> "b",
       createdAt |-> 10, options |-> <<"YES", "NO">>]
Events == {P1, P2, P3, P4}
Items == {"i1"}
\* the heights the chain oracle answers; the chain never shrinks
Heights == {100, 101}
LaterHeights(b) == {c \in Heights : c >= b}

\* ----------------------------------------------------------------- state
VARIABLES
    proposals,      \* Proposal rows, id = index
    results,        \* ProposalResult rows, id = index
    optionResults,  \* ProposalOptionResult rows, id = index
    votes,          \* Vote rows, id = index
    listingItems,   \* item hash -> proposal hash linked to the ListingItem
    height,         \* chain height last answered by the oracle
    pc,             \* per handler: the await it is suspended at
    loc,            \* per handler: the local variables of the invocation
    delivered,      \* events emitted so far, in order
    smsgStatus,     \* per handler: status recorded on the smsg message of its event
    failures,       \* rejected calls so far
    lastVote,       \* the last vote message admitted and what became of it
    cmd             \* the "proposal post" RPC command in progress

vars == <<proposals, results, optionResults, votes, listingItems, height,
          pc, loc, delivered, smsgStatus, failures, lastVote, cmd>>

\* what the proposal listener never touches
aux == <<lastVote, cmd>>
\* what the RPC command never touches
engine == <<proposals, results, optionResults, votes, listingItems, height,
            pc, loc, delivered, smsgStatus, failures, lastVote>>

db == <<proposals, results, optionResults, votes>>

NoProposal == [id |-> 0, hash |-> "", item |-> "", type |-> "", submitter |-> "",
               createdAt |-> 0, options |-> <<>>]

\* ------------------------------------------------ repository (read side)
\* ProposalFactory.getModel: ProposalMessage -> ProposalCreateRequest
getModel(m) ==
    [hash |-> m.hash, item |-> m.item, type |-> m.type, submitter |-> m.submitter,
     createdAt |-> m.createdAt, options |-> m.options]

\* ProposalService.findOneByItemHash: the first Proposal row of the subject
IdsByItem(item) == {i \in DOMAIN proposals : proposals[i].item = item}
Min(S) == CHOOSE x \in S : \A y \in S : x <= y
Max(S) == CHOOSE x \in S : \A y \in S : x >= y

\* ProposalResultService.findOneByProposalHash: the current (most recently
\* created) ProposalResult of the Proposal with that hash, 0 when none
ResultsOf(pid) == {r \in DOMAIN results : results[r].proposal_id = pid}
CurrentResult(pid) == IF ResultsOf(pid) = {} THEN 0 ELSE Max(ResultsOf(pid))
IdsByHash(hash) == {i \in DOMAIN proposals : proposals[i].hash = hash}
findOneByProposalHash(hash) ==
    IF IdsByHash(hash) = {} THEN 0 ELSE CurrentResult(Min(IdsByHash(hash)))

\* ------------------------------------------------------------- tallying
RECURSIVE SumWeights(_)
SumWeights(S) ==
    IF S = {} THEN 0
    ELSE LET i == CHOOSE x \in S : TRUE IN votes[i].weight + SumWeights(S \ {i})

\* current (non-superseded) votes of one option of a proposal
CurrentVotes(pid, k) ==
    {i \in DOMAIN votes : /\ votes[i].current
                          /\ votes[i].proposal_id = pid
                          /\ votes[i].optionId = k}

\* VoteActionService.updateProposalResult: refresh the option results of one
\* ProposalResult from the current votes
Recomputed(rid) ==
    [i \in DOMAIN optionResults |->
        IF optionResults[i].proposal_result_id = rid
        THEN [optionResults[i] EXCEPT
                !.weight = SumWeights(CurrentVotes(results[rid].proposal_id,
                                                   optionResults[i].optionId)),
                !.voters = Cardinality({votes[v].voter :
                              v \in CurrentVotes(results[rid].proposal_id,
                                                 optionResults[i].optionId)})]
        ELSE optionResults[i]]

\* the REMOVE option of a proposal snapshot: the last option so described,
\* 0 when there is none
RemoveOption(p) ==
    LET S == {k \in DOMAIN p.options : p.options[k] = REMOVE}
    IN IF S = {} THEN 0 ELSE Max(S)

\* ------------------------------------------------------------------ init
\* no vote message admitted yet
NoVote == [n |-> 0, voter |-> "", proposal_id |-> 0, optionId |-> 0,
           block |-> 0, weight |-> 0, outcome |-> "none",
           prevOption |-> 0, prevBlock |-> 0]
\* no RPC command in progress
NoCmd == [pc |-> "idle", params |-> <<>>, orig |-> <<>>, error |-> <<>>,
          lookups |-> 0, posted |-> <<>>]
NoLoc == [msg |-> P1, req |-> getModel(P1), currentBlock |-> 0,
          proposal |-> NoProposal, proposalResult |-> 0,
          cprBlock |-> 0, cprResult |-> 0, cprNext |-> 0, cprFrom |-> "",
          recon |-> "none", outcome |-> "none", failed |-> {},
          optionNotFound |-> FALSE, voteDue |-> FALSE,
          pre |-> <<<<>>, <<>>, <<>>, <<>>>>]

Init ==
    /\ proposals = <<>>
    /\ results = <<>>
    /\ optionResults = <<>>
    /\ votes = <<>>
    /\ listingItems = [i \in {} |-> ""]
    /\ height = 100
    /\ pc = [h \in Invocations |-> "idle"]
    /\ loc = [h \in Invocations |-> NoLoc]
    /\ delivered = <<>>
    /\ smsgStatus = [h \in Invocations |-> RECEIVED]
    /\ failures = 0
    /\ lastVote = NoVote
    /\ cmd = NoCmd

\* ---------------------------------------------------------------- helpers
Goto(h, label) == pc' = [pc EXCEPT ![h] = label]
SetLoc(h, r) == loc' = [loc EXCEPT ![h] = r]
Fails == /\ failures < MaxFailures
         /\ failures' = failures + 1
Failed(h, step) == [loc[h] EXCEPT !.failed = @ \cup {step}]
Idle == \A h \in Invocations : pc[h] \in {"idle", "done"}

\* what a return or a throw of processProposalReceivedEvent leaves behind
Return(h, r, status) ==
    /\ SetLoc(h, [r EXCEPT !.outcome = status])
    /\ Goto(h, "then")
Throw(h, r) ==
    /\ SetLoc(h, [r EXCEPT !.outcome = THROWN])
    /\ Goto(h, "catch")
\* line 158-160: the reconcile block is over; only ITEM_VOTE proposals vote
AfterReconcile(h, r) ==
    IF r.proposal.type = ITEM_VOTE
    THEN SetLoc(h, r) /\ Goto(h, "findListingItem")
    ELSE Return(h, r, PROCESSED)
\* a listener whose .catch lets the rejection through
Swallow_Rethrow(h, r) == Throw(h, r)
\* line 198-202: the .catch only logs, then PROCESSED is returned
Swallow(h, r) == Return(h, r, PROCESSED)

\* --------------------------------------------------------------- actions
\* the event is emitted and the listener starts (lines 273-275, 106-111)
Deliver(h, m) ==
    /\ Idle
    /\ Len(delivered) < MaxDeliveries
    /\ delivered' = Append(delivered, m)
    /\ smsgStatus' = [smsgStatus EXCEPT ![h] = RECEIVED]
    /\ SetLoc(h, [NoLoc EXCEPT !.msg = m,
                               !.req = getModel(m), !.pre = db])
    /\ Goto(h, "getBlockCount")
    /\ UNCHANGED <<proposals, results, optionResults, votes, listingItems,
                   height, failures>>
    /\ UNCHANGED aux

\* a ListingItem is stored locally (ListingItemCreateRequest)
ListingItemArrives(i) ==
    /\ Idle
    /\ i \notin DOMAIN listingItems
    /\ listingItems' = listingItems @@ (i :> "")
    /\ UNCHANGED <<proposals, results, optionResults, votes, height, pc, loc,
                   delivered, smsgStatus, failures>>
    /\ UNCHANGED aux

\* line 113
GetBlockCount(h) ==
    /\ pc[h] = "getBlockCount"
    /\ \/ \E b \in LaterHeights(height) :
            /\ height' = b
            /\ SetLoc(h, [loc[h] EXCEPT !.currentBlock = b])
            /\ Goto(h, "findOneByItemHash")
            /\ UNCHANGED failures
       \/ /\ Fails
          /\ Throw(h, Failed(h, "getBlockCount"))
          /\ UNCHANGED height
    /\ UNCHANGED <<proposals, results, optionResults, votes, listingItems,
                   delivered, smsgStatus>>
    /\ UNCHANGED aux

\* lines 120-128 and 147: a rejected lookup is taken for "no proposal yet"
FindOneByItemHash(h) ==
    /\ pc[h] = "findOneByItemHash"
    /\ LET S == IdsByItem(loc[h].req.item) IN
       \/ /\ S # {}
          /\ LET p == proposals[Min(S)] IN
             /\ SetLoc(h, [loc[h] EXCEPT !.proposal = p])
             /\ Goto(h, IF p.createdAt < loc[h].msg.createdAt
                        THEN "replaceFind" ELSE "findResult")
          /\ UNCHANGED failures
       \/ /\ S = {}
          /\ UNCHANGED <<loc, failures>>
          /\ Goto(h, "create")
       \/ /\ S # {}
          /\ Fails
          /\ SetLoc(h, Failed(h, "findOneByItemHash"))
          /\ Goto(h, "create")
    /\ UNCHANGED <<proposals, results, optionResults, votes, listingItems,
                   height, delivered, smsgStatus>>
    /\ UNCHANGED aux

\* line 132
ReplaceFind(h) ==
    /\ pc[h] = "replaceFind"
    /\ \/ /\ SetLoc(h, [loc[h] EXCEPT !.proposalResult =
                                    findOneByProposalHash(loc[h].proposal.hash)])
          /\ Goto(h, "update")
          /\ UNCHANGED failures
       \/ /\ Fails
          /\ Return(h, Failed(h, "findOneByProposalHash"), WAITING)
    /\ UNCHANGED <<proposals, results, optionResults, votes, listingItems,
                   height, delivered, smsgStatus>>
    /\ UNCHANGED aux

\* ProposalService.update: the fields of the row are overwritten, the id kept
Updated(id, req) ==
    [id |-> id, hash |-> req.hash, item |-> req.item, type |-> req.type,
     submitter |-> req.submitter, createdAt |-> req.createdAt,
     options |-> req.options]

\* lines 133-134
Update(h) ==
    /\ pc[h] = "update"
    /\ \/ /\ proposals' = [proposals EXCEPT ![loc[h].proposal.id] =
                                        Updated(loc[h].proposal.id, loc[h].req)]
          /\ SetLoc(h, [loc[h] EXCEPT
                          !.proposal = Updated(loc[h].proposal.id, loc[h].req),
                          !.cprFrom = "replace"])
          /\ Goto(h, "cprBlock")
          /\ UNCHANGED failures
       \/ /\ Fails
          /\ Return(h, Failed(h, "update"), WAITING)
          /\ UNCHANGED proposals
    /\ UNCHANGED <<results, optionResults, votes, listingItems, height,
                   delivered, smsgStatus>>
    /\ UNCHANGED aux

\* lines 150-155
Create(h) ==
    /\ pc[h] = "create"
    /\ \/ /\ proposals' = Append(proposals,
                                 Updated(Len(proposals) + 1, loc[h].req))
          /\ SetLoc(h, [loc[h] EXCEPT
                          !.proposal = Updated(Len(proposals) + 1, loc[h].req),
                          !.cprFrom = "create"])
          /\ Goto(h, "cprBlock")
          /\ UNCHANGED failures
       \/ /\ Fails
          /\ Return(h, Failed(h, "create"), WAITING)
          /\ UNCHANGED proposals
    /\ UNCHANGED <<results, optionResults, votes, listingItems, height,
                   delivered, smsgStatus>>
    /\ UNCHANGED aux

\* a rejection inside createProposalResult: caught at line 136 on the
\* replace path (WAITING), uncaught at line 156 on the create path
CprFail(h, step) ==
    IF loc[h].cprFrom = "replace"
    THEN Return(h, Failed(h, step), WAITING)
    ELSE Throw(h, Failed(h, step))

\* line 212
CprBlock(h) ==
    /\ pc[h] = "cprBlock"
    /\ \/ \E b \in LaterHeights(height) :
            /\ height' = b
            /\ SetLoc(h, [loc[h] EXCEPT !.cprBlock = b])
            /\ Goto(h, "cprCreate")
            /\ UNCHANGED failures
       \/ /\ Fails
          /\ CprFail(h, "getBlockCount")
          /\ UNCHANGED height
    /\ UNCHANGED <<proposals, results, optionResults, votes, listingItems,
                   delivered, smsgStatus>>
    /\ UNCHANGED aux

\* a result stamped with the height read when processing began
CprCreate_StartBlock(h) ==
    /\ pc[h] = "cprCreate"
    /\ \/ /\ results' = Append(results, [proposal_id |-> loc[h].proposal.id,
                                         block |-> loc[h].currentBlock])
          /\ SetLoc(h, [loc[h] EXCEPT !.cprResult = Len(results) + 1,
                                      !.cprNext = 1])
          /\ Goto(h, IF Len(loc[h].proposal.options) = 0
                     THEN "cprFindOne" ELSE "cprOption")
          /\ UNCHANGED failures
       \/ /\ Fails
          /\ CprFail(h, "proposalResultCreate")
          /\ UNCHANGED results
    /\ UNCHANGED <<proposals, optionResults, votes, listingItems, height,
                   delivered, smsgStatus>>
    /\ UNCHANGED aux
\* lines 214-218
CprCreate(h) ==
    /\ pc[h] = "cprCreate"
    /\ \/ /\ results' = Append(results, [proposal_id |-> loc[h].proposal.id,
                                         block |-> loc[h].cprBlock])
          /\ SetLoc(h, [loc[h] EXCEPT !.cprResult = Len(results) + 1,
                                      !.cprNext = 1])
          /\ Goto(h, IF Len(loc[h].proposal.options) = 0
                     THEN "cprFindOne" ELSE "cprOption")
          /\ UNCHANGED failures
       \/ /\ Fails
          /\ CprFail(h, "proposalResultCreate")
          /\ UNCHANGED results
    /\ UNCHANGED <<proposals, optionResults, votes, listingItems, height,
                   delivered, smsgStatus>>
    /\ UNCHANGED aux

\* lines 223-231, one turn of the loop
CprOption(h) ==
    /\ pc[h] = "cprOption"
    /\ \/ /\ optionResults' = Append(optionResults,
                 [proposal_result_id |-> loc[h].cprResult,
                  optionId |-> loc[h].cprNext,
                  weight |-> 0, voters |-> 0])
          /\ SetLoc(h, [loc[h] EXCEPT !.cprNext = @ + 1])
          /\ Goto(h, IF loc[h].cprNext >= Len(loc[h].proposal.options)
                     THEN "cprFindOne" ELSE "cprOption")
          /\ UNCHANGED failures
       \/ /\ Fails
          /\ CprFail(h, "optionResultCreate")
          /\ UNCHANGED optionResults
    /\ UNCHANGED <<proposals, results, votes, listingItems, height,
                   delivered, smsgStatus>>
    /\ UNCHANGED aux

\* lines 233-234, and the return to line 135 or line 156
CprFindOne(h) ==
    /\ pc[h] = "cprFindOne"
    /\ \/ /\ UNCHANGED failures
          /\ IF loc[h].cprFrom = "replace"
             THEN /\ SetLoc(h, [loc[h] EXCEPT !.proposalResult = loc[h].cprResult])
                  /\ Goto(h, "findResult")
             ELSE AfterReconcile(h, [loc[h] EXCEPT
                                       !.proposalResult = loc[h].cprResult,
                                       !.recon = "created"])
       \/ /\ Fails
          /\ CprFail(h, "proposalResultFindOne")
    /\ UNCHANGED <<proposals, results, optionResults, votes, listingItems,
                   height, delivered, smsgStatus>>
    /\ UNCHANGED aux

\* line 146
FindResult(h) ==
    /\ pc[h] = "findResult"
    /\ \/ /\ UNCHANGED failures
          /\ AfterReconcile(h, [loc[h] EXCEPT
                 !.proposalResult = findOneByProposalHash(loc[h].proposal.hash),
                 !.recon = IF loc[h].cprFrom = "replace"
                           THEN "replaced" ELSE "superseded"])
       \/ /\ Fails
          /\ Throw(h, Failed(h, "findOneByProposalHash"))
    /\ UNCHANGED <<proposals, results, optionResults, votes, listingItems,
                   height, delivered, smsgStatus>>
    /\ UNCHANGED aux

\* a handler that goes on to vote when no ListingItem has the hash
FindListingItem_VoteAnyway(h) ==
    /\ pc[h] = "findListingItem"
    /\ LET item == loc[h].proposal.item IN
       \/ /\ Goto(h, "findMarket")
          /\ UNCHANGED <<loc, failures>>
       \/ /\ item \in DOMAIN listingItems
          /\ Fails
          /\ Swallow(h, Failed(h, "findListingItem"))
    /\ UNCHANGED <<proposals, results, optionResults, votes, listingItems,
                   height, delivered, smsgStatus>>
    /\ UNCHANGED aux
\* line 161: the lookup rejects when no ListingItem has the hash
FindListingItem(h) ==
    /\ pc[h] = "findListingItem"
    /\ LET item == loc[h].proposal.item IN
       \/ /\ item \in DOMAIN listingItems
          /\ Goto(h, "updateProposalRelation")
          /\ UNCHANGED <<loc, failures>>
       \/ /\ item \notin DOMAIN listingItems
          /\ Swallow(h, loc[h])
          /\ UNCHANGED failures
       \/ /\ item \in DOMAIN listingItems
          /\ Fails
          /\ Swallow(h, Failed(h, "findListingItem"))
    /\ UNCHANGED <<proposals, results, optionResults, votes, listingItems,
                   height, delivered, smsgStatus>>
    /\ UNCHANGED aux

\* line 164
UpdateProposalRelation(h) ==
    /\ pc[h] = "updateProposalRelation"
    /\ \/ /\ listingItems' = [listingItems EXCEPT ![loc[h].proposal.item] =
                                                    loc[h].proposal.hash]
          /\ Goto(h, "findMarket")
          /\ UNCHANGED <<loc, failures>>
       \/ /\ Fails
          /\ Swallow(h, Failed(h, "updateProposalRelation"))
          /\ UNCHANGED listingItems
    /\ UNCHANGED <<proposals, results, optionResults, votes, height,
                   delivered, smsgStatus>>
    /\ UNCHANGED aux

\* lines 167-184: the market is found, then the REMOVE option is looked for
FindMarket(h) ==
    /\ pc[h] = "findMarket"
    /\ \/ /\ RemoveOption(loc[h].proposal) # 0
          /\ SetLoc(h, [loc[h] EXCEPT !.voteDue = TRUE])
          /\ Goto(h, "voteCreate")
          /\ UNCHANGED failures
       \/ /\ RemoveOption(loc[h].proposal) = 0
          /\ Swallow(h, [loc[h] EXCEPT !.voteDue = TRUE, !.optionNotFound = TRUE])
          /\ UNCHANGED failures
       \/ /\ Fails
          /\ Swallow(h, Failed(h, "findMarket"))
    /\ UNCHANGED <<proposals, results, optionResults, votes, listingItems,
                   height, delivered, smsgStatus>>
    /\ UNCHANGED aux

\* a vote stamped with the latest height the chain answered
NewVote_LatestHeight(p, block) ==
    [proposal_id |-> p.id, optionId |-> RemoveOption(p), voter |-> p.submitter,
     block |-> height, weight |-> VoteWeight, current |-> TRUE]
\* VoteService.create: a Vote row is inserted as the current one
NewVote(p, block) ==
    [proposal_id |-> p.id, optionId |-> RemoveOption(p), voter |-> p.submitter,
     block |-> block, weight |-> VoteWeight, current |-> TRUE]

\* lines 185-192
VoteCreate(h) ==
    /\ pc[h] = "voteCreate"
    /\ \/ /\ votes' = Append(votes, NewVote(loc[h].proposal, loc[h].currentBlock))
          /\ Goto(h, "updateProposalResult")
          /\ UNCHANGED <<loc, failures>>
       \/ /\ Fails
          /\ Swallow(h, Failed(h, "voteCreate"))
          /\ UNCHANGED votes
    /\ UNCHANGED <<proposals, results, optionResults, listingItems, height,
                   delivered, smsgStatus>>
    /\ UNCHANGED aux

\* line 194: proposalResult.id of a missing result is a TypeError
UpdateProposalResult(h) ==
    /\ pc[h] = "updateProposalResult"
    /\ \/ /\ loc[h].proposalResult # 0
          /\ optionResults' = Recomputed(loc[h].proposalResult)
          /\ Return(h, loc[h], PROCESSED)
          /\ UNCHANGED failures
       \/ /\ loc[h].proposalResult = 0
          /\ Swallow(h, loc[h])
          /\ UNCHANGED <<optionResults, failures>>
       \/ /\ loc[h].proposalResult # 0
          /\ Fails
          /\ Swallow(h, Failed(h, "updateProposalResult"))
          /\ UNCHANGED optionResults
    /\ UNCHANGED <<proposals, results, votes, listingItems, height,
                   delivered, smsgStatus>>
    /\ UNCHANGED aux

\* lines 276-278: the returned status is recorded on the smsg message
Then(h) ==
    /\ pc[h] = "then"
    /\ \/ /\ smsgStatus' = [smsgStatus EXCEPT ![h] = loc[h].outcome]
          /\ Goto(h, "done")
          /\ UNCHANGED <<loc, failures>>
       \/ /\ Fails
          /\ SetLoc(h, Failed(h, "updateSmsgMessageStatus"))
          /\ Goto(h, "catch")
          /\ UNCHANGED smsgStatus
    /\ UNCHANGED <<proposals, results, optionResults, votes, listingItems,
                   height, delivered>>
    /\ UNCHANGED aux

\* lines 279-282
Catch(h) ==
    /\ pc[h] = "catch"
    /\ \/ /\ smsgStatus' = [smsgStatus EXCEPT ![h] = PARSING_FAILED]
          /\ UNCHANGED <<loc, failures>>
       \/ /\ Fails
          /\ SetLoc(h, Failed(h, "updateSmsgMessageStatus"))
          /\ UNCHANGED smsgStatus
    /\ Goto(h, "done")
    /\ UNCHANGED <<proposals, results, optionResults, votes, listingItems,
                   height, delivered>>
    /\ UNCHANGED aux

Step(h) ==
    \/ GetBlockCount(h)
    \/ FindOneByItemHash(h)
    \/ ReplaceFind(h)
    \/ Update(h)
    \/ Create(h)
    \/ CprBlock(h)
    \/ CprCreate(h)
    \/ CprOption(h)
    \/ CprFindOne(h)
    \/ FindResult(h)
    \/ FindListingItem(h)
    \/ UpdateProposalRelation(h)
    \/ FindMarket(h)
    \/ VoteCreate(h)
    \/ UpdateProposalResult(h)
    \/ Then(h)
    \/ Catch(h)

Next ==
    \/ \E h \in Handlers, m \in Events : Deliver(h, m)
    \/ \E i \in Items : ListingItemArrives(i)
    \/ \E h \in Handlers : Step(h)

Spec == Init /\ [][Next]_vars

TypeOK ==
    /\ failures \in 0..MaxFailures
    /\ Len(delivered) <= MaxDeliveries
    /\ height \in Heights

\* ------------------------------------------------------ claim vocabulary
\* the listener has the outcome of processProposalReceivedEvent in hand
Finished(h) == pc[h] \in {"then", "catch", "done"}
\* the status the listener reports for the outcome (lines 276-282)
Reported(h) == IF loc[h].outcome = THROWN THEN PARSING_FAILED ELSE loc[h].outcome
\* the same event was delivered every time
SameMessage == \A i \in DOMAIN delivered : delivered[i] = delivered[1]
\* the rows the handler found when the event was delivered
PreOptionResults(h) == loc[h].pre[3]
PreVotes(h) == loc[h].pre[4]
\* voters that have a current vote on a proposal
CurrentVoters(pid) ==
    {votes[v].voter : v \in {i \in DOMAIN votes : /\ votes[i].current
                                                   /\ votes[i].proposal_id = pid}}
OptionResultsOf(rid) ==
    {i \in DOMAIN optionResults : optionResults[i].proposal_result_id = rid}
RECURSIVE SumVoters(_)
SumVoters(S) ==
    IF S = {} THEN 0
    ELSE LET i == CHOOSE x \in S : TRUE
         IN optionResults[i].voters + SumVoters(S \ {i})
\* the calls C7 lists
TransientSteps ==
    {"getBlockCount", "create", "update", "findOneByProposalHash",
     "proposalResultCreate", "optionResultCreate", "proposalResultFindOne",
     "voteCreate", "updateProposalResult"}

\* C1: delivering the same proposal message N >= 1 times leaves exactly one
\* stored Proposal for the subject with a current ProposalResult, and the
\* tallies are not changed by a delivery after the first (stated here for
\* runs in which no call rejects and the first delivery already voted).
C1_Idempotence ==
    \A h \in Handlers :
        (pc[h] = "done" /\ failures = 0 /\ SameMessage) =>
            /\ Cardinality(IdsByItem(loc[h].msg.item)) = 1
            /\ \A p \in IdsByItem(loc[h].msg.item) : CurrentResult(p) # 0
            /\ (Len(delivered) >= 2 /\ PreVotes(h) # <<>>) =>
                   optionResults = PreOptionResults(h)

\* C2: after P1 (origin 10) and P2 (origin 5) were processed, in either
\* order, the stored Proposal of the subject has the content of P2.
C2_OlderOriginWins ==
    \A h \in Handlers :
        (pc[h] = "done" /\ failures = 0
            /\ delivered \in {<<P1, P2>>, <<P2, P1>>}) =>
            \A i \in IdsByItem(P2.item) :
                proposals[i] = Updated(i, getModel(P2))

\* C3: at most one ITEM_VOTE Proposal row per subject.
C3_OneProposalPerSubject ==
    \A item \in Items :
        Cardinality({i \in IdsByItem(item) : proposals[i].type = ITEM_VOTE}) <= 1

\* C4: at most one current Vote per (proposal, voter).
C4_OneCurrentVotePerVoter ==
    \A i, j \in DOMAIN votes :
        (/\ votes[i].current /\ votes[j].current
         /\ votes[i].proposal_id = votes[j].proposal_id
         /\ votes[i].voter = votes[j].voter) => i = j

\* C5: whenever no handler is in flight (and no call rejected), the voters counts of a proposal's
\* current ProposalResult add up to the number of distinct voters with a
\* current vote on the proposal.
C5_TallyConservation ==
    (Idle /\ failures = 0) =>
        \A p \in DOMAIN proposals :
            CurrentResult(p) # 0 =>
                SumVoters(OptionResultsOf(CurrentResult(p))) =
                    Cardinality(CurrentVoters(p))

\* C6: an ITEM_VOTE proposal without REMOVE option on which a vote is due
\* is recorded PARSING_FAILED, and no Vote is created and no tally changed.
C6_StructuralRejection ==
    \A h \in Handlers :
        (pc[h] = "done" /\ failures = 0 /\ loc[h].optionNotFound) =>
            /\ smsgStatus[h] = PARSING_FAILED
            /\ votes = PreVotes(h)
            /\ SubSeq(optionResults, 1, Len(PreOptionResults(h))) =
                   PreOptionResults(h)

\* C7: a message during whose processing one of the listed calls rejected
\* is reported WAITING.
C7_TransientIsWaiting ==
    \A h \in Handlers :
        (Finished(h) /\ loc[h].failed \cap TransientSteps # {}) =>
            Reported(h) = WAITING

\* C8: when processing is reported WAITING the Proposal, ProposalResult,
\* ProposalOptionResult and Vote rows are those found at delivery.
C8_WaitingLeavesStateUntouched ==
    \A h \in Handlers :
        (Finished(h) /\ loc[h].outcome = WAITING) => db = loc[h].pre

\* C9: whenever no handler is in flight every stored Proposal has a current
\* ProposalResult with exactly one ProposalOptionResult per ProposalOption.
C9_OneCurrentResult ==
    Idle =>
        \A p \in DOMAIN proposals :
            /\ CurrentResult(p) # 0
            /\ \A k \in DOMAIN proposals[p].options :
                 Cardinality({i \in OptionResultsOf(CurrentResult(p)) :
                                 optionResults[i].optionId = k}) = 1
            /\ Cardinality(OptionResultsOf(CurrentResult(p))) =
                   Len(proposals[p].options)

\* the awaited calls of a handler always settle and the handler resumes
FairSpec == Spec /\ \A h \in Handlers : WF_vars(Step(h))

\* C10: the outcome of processing a message is exactly one of PROCESSED,
\* WAITING and PARSING_FAILED, a reconciliation that completed (created,
\* replaced, superseded-by-existing) has the outcome PROCESSED, the outcome
\* is the status recorded on the message unless updateSmsgMessageStatus
\* itself rejected, and every delivered message gets there.
C10_StatusReported ==
    \A h \in Handlers :
        /\ Finished(h) =>
            /\ Reported(h) \in {PROCESSED, WAITING, PARSING_FAILED}
            /\ loc[h].recon \in {"created", "replaced", "superseded"} =>
                   Reported(h) = PROCESSED
        /\ (pc[h] = "done" /\ "updateSmsgMessageStatus" \notin loc[h].failed) =>
               smsgStatus[h] = Reported(h)
Free == {g \in Invocations : pc[g] \in {"idle", "done"}}
ConcDeliver(h, m) ==
    /\ Free # {}
    /\ h = Min(Free)
    /\ Len(delivered) < MaxDeliveries
    /\ delivered' = Append(delivered, m)
    /\ smsgStatus' = [smsgStatus EXCEPT ![h] = RECEIVED]
    /\ SetLoc(h, [NoLoc EXCEPT !.msg = m,
                               !.req = getModel(m), !.pre = db])
    /\ Goto(h, "getBlockCount")
    /\ UNCHANGED <<proposals, results, optionResults, votes, listingItems,
                   height, failures>>
    /\ UNCHANGED aux

ConcNext ==
    \/ \E h \in Invocations, m \in Events : ConcDeliver(h, m)
    \/ \E i \in Items : ListingItemArrives(i)
    \/ \E h \in Invocations : Step(h)

ConcSpec == Init /\ [][ConcNext]_vars

\* C11: messages of one subject are processed one at a time, so that two
\* concurrent deliveries never both find no Proposal and both create one:
\* with no call rejecting, a subject never has two Proposal rows.
C11_NoDoubleCreate ==
    failures = 0 => \A item \in Items : Cardinality(IdsByItem(item)) <= 1

\* ------------------------------------------------------- vote admission
\* The Vote Admission Controller (VoteActionService, admitVote): a vote
\* message for a known proposal is resolved, weighed, recorded and tallied
\* in one piece.
MaxVotes == 2           \* vote messages admitted in one behaviour

\* the chain oracle's balance of an address
Balance == [a |-> 50, b |-> 0]
\* the weight of a vote: the balance, at least 1
WeightOf(voter) == IF Balance[voter] < 1 THEN 1 ELSE Balance[voter]

VA == [hash |-> "h1", voter |-> "a", optionId |-> 1, block |-> 100]
VB == [hash |-> "h1", voter |-> "a", optionId |-> 2, block |-> 101]
VC == [hash |-> "h1", voter |-> "b", optionId |-> 1, block |-> 101]
VD == [hash |-> "h1", voter |-> "b", optionId |-> 3, block |-> 100]
VoteMsgs == {VA, VB, VC, VD}

\* findCurrentVote: the current votes of a voter on a proposal in vs
CurrentOf(vs, pid, voter) ==
    {i \in DOMAIN vs : /\ vs[i].current
                       /\ vs[i].proposal_id = pid
                       /\ vs[i].voter = voter}

RECURSIVE SumWeightsIn(_, _)
SumWeightsIn(vs, S) ==
    IF S = {} THEN 0
    ELSE LET i == CHOOSE x \in S : TRUE
         IN vs[i].weight + SumWeightsIn(vs, S \ {i})

\* recompute: the option results of ProposalResult rid from the current
\* votes in vs
RecomputedFrom(vs, rid) ==
    [i \in DOMAIN optionResults |->
        IF optionResults[i].proposal_result_id = rid
        THEN LET S == {v \in DOMAIN vs :
                          /\ vs[v].current
                          /\ vs[v].proposal_id = results[rid].proposal_id
                          /\ vs[v].optionId = optionResults[i].optionId}
             IN [optionResults[i] EXCEPT
                    !.weight = SumWeightsIn(vs, S),
                    !.voters = Cardinality({vs[v].voter : v \in S})]
        ELSE optionResults[i]]

\* the Vote row of a vote message
VoteRow(v, pid) ==
    [proposal_id |-> pid, optionId |-> v.optionId, voter |-> v.voter,
     block |-> v.block, weight |-> WeightOf(v.voter), current |-> TRUE]

\* the votes after the vote message is recorded; an older current vote of
\* the voter becomes historical
Superseding_KeepOld(vs, old, row) == Append(vs, row)
Superseding(vs, old, row) ==
    Append([i \in DOMAIN vs |->
               IF i \in old THEN [vs[i] EXCEPT !.current = FALSE] ELSE vs[i]],
           row)

\* a vote older than the voter's current one is stale
IsStale_Never(v, cur) == FALSE
IsStale(v, cur) == v.block < cur.block

Noted(v, pid, outcome, prevOption, prevBlock) ==
    [n |-> lastVote.n + 1, voter |-> v.voter, proposal_id |-> pid,
     optionId |-> v.optionId, block |-> v.block,
     weight |-> WeightOf(v.voter), outcome |-> outcome,
     prevOption |-> prevOption, prevBlock |-> prevBlock]

AdmitVote(v) ==
    /\ Idle
    /\ lastVote.n < MaxVotes
    /\ IdsByHash(v.hash) # {}
    /\ LET pid == Min(IdsByHash(v.hash))
           rid == CurrentResult(pid)
           mine == CurrentOf(votes, pid, v.voter)
       IN
       IF v.optionId \notin DOMAIN proposals[pid].options
       THEN /\ lastVote' = Noted(v, pid, "OptionNotFound", 0, 0)
            /\ UNCHANGED <<votes, optionResults>>
       ELSE IF rid = 0
       THEN /\ lastVote' = Noted(v, pid, "Deferred", 0, 0)
            /\ UNCHANGED <<votes, optionResults>>
       ELSE IF mine = {}
       THEN /\ votes' = Append(votes, VoteRow(v, pid))
            /\ optionResults' = RecomputedFrom(votes', rid)
            /\ lastVote' = Noted(v, pid, "Inserted", 0, 0)
       ELSE IF IsStale(v, votes[Max(mine)])
       THEN /\ lastVote' = Noted(v, pid, "StaleIgnored",
                                 votes[Max(mine)].optionId, votes[Max(mine)].block)
            /\ UNCHANGED <<votes, optionResults>>
       ELSE /\ votes' = Superseding(votes, {Max(mine)}, VoteRow(v, pid))
            /\ optionResults' = RecomputedFrom(votes', rid)
            /\ lastVote' = Noted(v, pid, "Superseded",
                                 votes[Max(mine)].optionId, votes[Max(mine)].block)
    /\ UNCHANGED <<proposals, results, listingItems, height, pc, loc,
                   delivered, smsgStatus, failures, cmd>>

\* the status reported for a vote message
VoteStatus(outcome) ==
    CASE outcome \in {"Inserted", "Superseded", "StaleIgnored"} -> PROCESSED
      [] outcome = "Deferred" -> WAITING
      [] outcome = "OptionNotFound" -> PARSING_FAILED
      [] OTHER -> RECEIVED

\* Vote admission next to the proposal handler, with every call of the
\* handler answering (its rejected calls are followed under Spec).
VoteNext ==
    \/ \E h \in Handlers, m \in Events : Deliver(h, m)
    \/ \E i \in Items : ListingItemArrives(i)
    \/ \E h \in Handlers : Step(h) /\ failures' = failures
    \/ \E v \in VoteMsgs : AdmitVote(v)

VoteSpec == Init /\ [][VoteNext]_vars

\* the tallies <<weight, voters>> that the rows of result rid carry for
\* option opt in ors
TalliesOf(ors, rid, opt) ==
    {<<ors[i].weight, ors[i].voters>> :
        i \in {j \in DOMAIN ors : /\ ors[j].proposal_result_id = rid
                                   /\ ors[j].optionId = opt}}
\* the voters with a current vote on proposal pid in vs
CurrentVotersIn(vs, pid) ==
    {vs[i].voter : i \in {j \in DOMAIN vs : /\ vs[j].current
                                             /\ vs[j].proposal_id = pid}}
\* a vote message has just been admitted
Admitted == lastVote'.n = lastVote.n + 1

\* C12: when the vote of V for option B is admitted and V, the only voter
\* of the proposal, holds one current vote, not newer, for another option
\* A, the tally then shows B with voters = 1 and weight = w and A with
\* voters = 0 and weight = 0.
C12_Step ==
    LET n == lastVote'
        pid == n.proposal_id
        mine == CurrentOf(votes, pid, n.voter)
    IN (/\ Admitted
        /\ n.optionId \in DOMAIN proposals[pid].options
        /\ CurrentResult(pid) # 0
        /\ Cardinality(mine) = 1
        /\ CurrentVotersIn(votes, pid) = {n.voter}
        /\ votes[Max(mine)].block <= n.block
        /\ votes[Max(mine)].optionId # n.optionId)
       => /\ TalliesOf(optionResults', CurrentResult(pid), n.optionId)
                = {<<WeightOf(n.voter), 1>>}
          /\ TalliesOf(optionResults', CurrentResult(pid),
                       votes[Max(mine)].optionId) = {<<0, 0>>}
C12_VoteSupersession == [][C12_Step]_vars
C12_Witness ==
    /\ lastVote.outcome = "Superseded"
    /\ lastVote.prevOption # lastVote.optionId
    /\ lastVote.prevBlock < lastVote.block
    /\ CurrentVotersIn(votes, lastVote.proposal_id) = {lastVote.voter}
    /\ TalliesOf(optionResults, CurrentResult(lastVote.proposal_id),
                 lastVote.optionId) = {<<50, 1>>}
    /\ TalliesOf(optionResults, CurrentResult(lastVote.proposal_id),
                 lastVote.prevOption) = {<<0, 0>>}

\* C13: when a vote of V arrives that claims a block older than the block
\* of V's current vote on the proposal, it is ignored: the outcome is
\* Processed, no Vote is inserted and no tally changes.
C13_Step ==
    LET n == lastVote'
        pid == n.proposal_id
        mine == CurrentOf(votes, pid, n.voter)
    IN (/\ Admitted
        /\ n.optionId \in DOMAIN proposals[pid].options
        /\ CurrentResult(pid) # 0
        /\ mine # {}
        /\ n.block < votes[Max(mine)].block)
       => /\ VoteStatus(n.outcome) = PROCESSED
          /\ n.outcome = "StaleIgnored"
          /\ votes' = votes
          /\ optionResults' = optionResults
C13_StaleVoteIgnored == [][C13_Step]_vars
C13_Witness ==
    /\ lastVote.outcome = "StaleIgnored"
    /\ lastVote.block < lastVote.prevBlock
    /\ lastVote.optionId # lastVote.prevOption
    /\ lastVote.weight = 50

\* C14: the weight of every recorded Vote is the chain oracle's balance of
\* the voter's address, at least 1 (a voter with balance 50 is recorded
\* with weight 50).
C14_WeightFromBalance ==
    \A i \in DOMAIN votes : votes[i].weight = WeightOf(votes[i].voter)

\* -------------------------------------------------- ProposalPostCommand
\* The rpc command that posts a PUBLIC_VOTE proposal: validate (lines
\* 103-144) runs before execute (lines 56-86) on the same RpcRequest.
MaxParams == 8          \* longest parameter list of a request

\* JavaScript values: a type tag and a printed value
Num(v) == [t |-> "number", v |-> v]
Str(v) == [t |-> "string", v |-> v]
Bool(v) == [t |-> "boolean", v |-> v]
\* the truthiness tested by `data.params[i] &&`
Truthy(x) ==
    CASE x.t = "number" -> x.v # "0"
      [] x.t = "string" -> x.v # ""
      [] x.t = "boolean" -> x.v = "true"
      [] OTHER -> TRUE

ProfileIds == {Num("1"), Num("2"), Num("0"), Str("one"), Str("")}
Retentions == {Num("7"), Str("week")}
Fees == {Bool("true"), Bool("false"), Str("yes")}
OptionNames == <<"YES", "NO", "MAYBE", "LATER", "NEVER">>
\* the request of n parameters [0] profileId [1] proposalTitle
\* [2] proposalDescription [3] daysRetention [4] estimateFee [5..] options
Request(n, id, days, fee) ==
    [i \in 1..n |->
        CASE i = 1 -> id
          [] i = 2 -> Str("title")
          [] i = 3 -> Str("description")
          [] i = 4 -> days
          [] i = 5 -> fee
          [] OTHER -> Str(OptionNames[i - 5])]
Requests ==
    {Request(n, id, days, fee) :
        n \in 0..MaxParams, id \in ProfileIds, days \in Retentions,
        fee \in Fees}

\* profileService.findOne: the stored profiles, by id
StoredProfiles == {Num("1")}
ProfileOf(id) == [t |-> "Profile", v |-> id.v]
\* marketService.getDefaultForProfile
DefaultMarket(profile) == [t |-> "Market", v |-> profile.v]

\* lines 108-122
MissingParam_OneOption(params) ==
    IF Len(params) < 1 THEN "profileId"
    ELSE IF Len(params) < 2 THEN "proposalTitle"
    ELSE IF Len(params) < 3 THEN "proposalDescription"
    ELSE IF Len(params) < 4 THEN "daysRetention"
    ELSE IF Len(params) < 5 THEN "estimateFee"
    ELSE IF Len(params) < 6 THEN "option1Description"
    ELSE ""
MissingParam(params) ==
    IF Len(params) < 1 THEN "profileId"
    ELSE IF Len(params) < 2 THEN "proposalTitle"
    ELSE IF Len(params) < 3 THEN "proposalDescription"
    ELSE IF Len(params) < 4 THEN "daysRetention"
    ELSE IF Len(params) < 5 THEN "estimateFee"
    ELSE IF Len(params) < 6 THEN "option1Description"
    ELSE IF Len(params) < 7 THEN "option2Description"
    ELSE ""
\* lines 124-130
InvalidParam(params) ==
    IF Truthy(params[1]) /\ params[1].t # "number"
    THEN <<"profileId", "number">>
    ELSE IF Truthy(params[4]) /\ params[4].t # "number"
    THEN <<"daysRetention", "number">>
    ELSE IF Truthy(params[5]) /\ params[5].t # "boolean"
    THEN <<"estimateFee", "boolean">>
    ELSE <<>>

\* lines 58-83: the ProposalAddRequest built from the validated parameters
PostRequest_ShiftFive(params) ==
    [sender |-> params[2], market |-> params[1], category |-> PUBLIC_VOTE,
     title |-> params[3], description |-> params[4],
     daysRetention |-> params[5], estimateFee |-> params[6],
     options |-> SubSeq(params, 6, Len(params))]
PostRequest(params) ==
    [sender |-> params[2], market |-> params[1], category |-> PUBLIC_VOTE,
     title |-> params[3], description |-> params[4],
     daysRetention |-> params[5], estimateFee |-> params[6],
     options |-> SubSeq(params, 7, Len(params))]

Rejected(error) == cmd' = [cmd EXCEPT !.pc = "rejected", !.error = error]

\* the rpc server hands a request to the command
CmdCall(req) ==
    /\ cmd.pc \in {"idle", "done", "rejected"}
    /\ cmd' = [NoCmd EXCEPT !.pc = "validate", !.params = req, !.orig = req]
    /\ UNCHANGED engine

\* lines 108-130
CmdValidate ==
    /\ cmd.pc = "validate"
    /\ IF MissingParam(cmd.params) # ""
       THEN Rejected(<<"MissingParamException", MissingParam(cmd.params)>>)
       ELSE IF InvalidParam(cmd.params) # <<>>
       THEN Rejected(<<"InvalidParamException">> \o InvalidParam(cmd.params))
       ELSE cmd' = [cmd EXCEPT !.pc = "findProfile"]
    /\ UNCHANGED engine

\* lines 133-136
CmdFindProfile ==
    /\ cmd.pc = "findProfile"
    /\ IF cmd.params[1] \in StoredProfiles
       THEN cmd' = [cmd EXCEPT !.pc = "findMarket",
                               !.lookups = @ + 1,
                               !.params[1] = ProfileOf(cmd.params[1])]
       ELSE cmd' = [cmd EXCEPT !.pc = "rejected",
                               !.lookups = @ + 1,
                               !.error = <<"ModelNotFoundException", "Profile">>]
    /\ UNCHANGED engine

\* lines 140-143; a rejection of getDefaultForProfile is not caught
CmdFindMarket ==
    /\ cmd.pc = "findMarket"
    /\ \/ cmd' = [cmd EXCEPT !.pc = "execute",
                             !.lookups = @ + 1,
                             !.params = <<DefaultMarket(cmd.params[1])>> \o @]
       \/ cmd' = [cmd EXCEPT !.pc = "rejected",
                             !.lookups = @ + 1,
                             !.error = <<"Error">>]
    /\ UNCHANGED engine

\* lines 57-85
CmdExecute ==
    /\ cmd.pc = "execute"
    /\ cmd' = [cmd EXCEPT !.pc = "done",
                          !.posted = Append(@, PostRequest(cmd.params))]
    /\ UNCHANGED engine

CmdNext ==
    \/ \E req \in Requests : CmdCall(req)
    \/ CmdValidate
    \/ CmdFindProfile
    \/ CmdFindMarket
    \/ CmdExecute

CmdSpec == Init /\ [][CmdNext]_vars

\* the names of the required parameters, by position
ParamNames == <<"profileId", "proposalTitle", "proposalDescription",
                "daysRetention", "estimateFee", "option1Description",
                "option2Description">>

\* C15: a request of fewer than 7 parameters is rejected by validate with
\* a MissingParamException naming the first missing parameter, before any
\* profile or market lookup.
C15_MissingParam ==
    (cmd.pc \notin {"idle", "validate"} /\ Len(cmd.orig) < 7) =>
        /\ cmd.pc = "rejected"
        /\ cmd.error = <<"MissingParamException",
                         ParamNames[Len(cmd.orig) + 1]>>
        /\ cmd.lookups = 0
        /\ cmd.posted = <<>>
C15_Witness ==
    /\ cmd.pc = "rejected"
    /\ Len(cmd.orig) = 6
    /\ cmd.error = <<"MissingParamException", "option2Description">>
    /\ cmd.lookups = 0

\* C16: after validate succeeded and execute ran, post was called exactly
\* once, with category PUBLIC_VOTE, sender the Profile found for
\* profileId, market that profile's default market, and options the
\* original parameters from index 5 on, at least two, in their order.
C16_PostedOnce ==
    /\ cmd.pc = "done" =>
        /\ Len(cmd.posted) = 1
        /\ cmd.posted[1].category = PUBLIC_VOTE
        /\ cmd.posted[1].sender = ProfileOf(cmd.orig[1])
        /\ cmd.posted[1].market = DefaultMarket(ProfileOf(cmd.orig[1]))
        /\ cmd.posted[1].options = SubSeq(cmd.orig, 6, Len(cmd.orig))
        /\ Len(cmd.posted[1].options) >= 2
    /\ cmd.pc # "done" => cmd.posted = <<>>
C16_Witness ==
    /\ cmd.pc = "done"
    /\ Len(cmd.orig) = 8
    /\ cmd.posted = <<PostRequest(cmd.params)>>
    /\ cmd.posted[1].options = <<Str("YES"), Str("NO"), Str("MAYBE")>>

\* ------------------------------------------------ reconciliation paths
\* the rows a handler found when its event was delivered
PreProposals(h) == loc[h].pre[1]
PreResults(h) == loc[h].pre[2]
\* the stored proposals of the event's subject at delivery
PreIdsByItem(h) ==
    {i \in DOMAIN PreProposals(h) : PreProposals(h)[i].item = loc[h].req.item}
\* one all-zero row per option of proposal p, for result rid
ZeroRows(p, rid) ==
    [i \in 1..Len(p.options) |->
        [proposal_result_id |-> rid, optionId |-> i,
         weight |-> 0, voters |-> 0]]

\* C17: a proposal message for a subject with no stored Proposal, no call
\* failing, creates a Proposal and a fresh ProposalResult at the current
\* chain height with one ProposalOptionResult per option, weight 0 and
\* voters 0, before any vote is recorded.
C17_CreateMaterializes ==
    \A h \in Handlers :
        /\ (Finished(h) /\ loc[h].failed = {} /\ PreIdsByItem(h) = {}) =>
               loc[h].recon = "created"
        /\ (loc[h].recon = "created" /\ loc[h].failed = {}
            /\ votes = PreVotes(h)) =>
               LET id == Len(PreProposals(h)) + 1
                   rid == Len(PreResults(h)) + 1
               IN /\ PreIdsByItem(h) = {}
                  /\ proposals = Append(PreProposals(h),
                                        Updated(id, loc[h].req))
                  /\ results = Append(PreResults(h),
                                      [proposal_id |-> id, block |-> height])
                  /\ CurrentResult(id) = rid
                  /\ loc[h].proposalResult = rid
                  /\ optionResults = PreOptionResults(h)
                                       \o ZeroRows(proposals[id], rid)
C17_Witness ==
    \E h \in Handlers :
        /\ pc[h] = "voteCreate"
        /\ loc[h].recon = "created"
        /\ loc[h].failed = {}
        /\ votes = PreVotes(h)
        /\ height # loc[h].currentBlock
        /\ Len(optionResults) = Len(PreOptionResults(h)) + 2

\* the stored Proposal that findOneByItemHash answered to the handler
PreStored(h) == PreProposals(h)[Min(PreIdsByItem(h))]

\* C18: when a Proposal exists for the subject and the incoming origin
\* time is not earlier than the stored one's, the stored Proposal is left
\* unchanged and no new ProposalResult is created.
C18_NotEarlierLeavesStored ==
    \A h \in Handlers :
        (/\ Finished(h)
         /\ loc[h].failed = {}
         /\ PreIdsByItem(h) # {}
         /\ ~(loc[h].msg.createdAt < PreStored(h).createdAt))
        => /\ proposals = PreProposals(h)
           /\ results = PreResults(h)

\* C19: when a Proposal exists for the subject and the incoming origin
\* time is earlier than the stored one's, the stored Proposal's fields are
\* replaced in place (same id, no record added or deleted) and a fresh
\* ProposalResult becomes the proposal's current result.
C19_EarlierReplacesStored ==
    \A h \in Handlers :
        (/\ Finished(h)
         /\ loc[h].failed = {}
         /\ PreIdsByItem(h) # {}
         /\ loc[h].msg.createdAt < PreStored(h).createdAt)
        => LET id == PreStored(h).id
           IN /\ Len(proposals) = Len(PreProposals(h))
              /\ proposals[id] = Updated(id, loc[h].req)
              /\ \A i \in DOMAIN proposals :
                     i # id => proposals[i] = PreProposals(h)[i]
              /\ Len(results) = Len(PreResults(h)) + 1
              /\ CurrentResult(id) = Len(results)

\* the tallies are still those found at delivery, with only all-zero rows
\* added since
TalliesNotRefreshed(h) ==
    /\ Len(optionResults) >= Len(PreOptionResults(h))
    /\ \A i \in DOMAIN optionResults :
           IF i <= Len(PreOptionResults(h))
           THEN optionResults[i] = PreOptionResults(h)[i]
           ELSE optionResults[i].weight = 0 /\ optionResults[i].voters = 0
\* the one Vote of the handler: the last row, for the REMOVE option, by the
\* submitter, at the height read when processing began
SubmitterVoted(h) ==
    /\ Len(votes) = Len(PreVotes(h)) + 1
    /\ SubSeq(votes, 1, Len(PreVotes(h))) = PreVotes(h)
    /\ LET v == votes[Len(votes)]
           p == loc[h].proposal
       IN /\ v.proposal_id = p.id
          /\ v.optionId \in DOMAIN p.options
          /\ p.options[v.optionId] = REMOVE
          /\ v.voter = p.submitter
          /\ v.block = loc[h].currentBlock
          /\ v.current

NoListingItem(h) ==
    /\ pc[h] = "then"
    /\ loc[h].failed = {}
    /\ loc[h].proposal.type = ITEM_VOTE
    /\ loc[h].proposal.item \notin DOMAIN listingItems
    /\ loc[h].proposalResult # 0

\* C21: an ITEM_VOTE proposal processed while no ListingItem has its item
\* hash still has its Proposal and ProposalResult stored, creates no Vote,
\* changes no tally, and is reported Processed.
C21_MissingListingItem ==
    \A h \in Handlers :
        NoListingItem(h) =>
            /\ loc[h].outcome = PROCESSED
            /\ Reported(h) = PROCESSED
            /\ loc[h].proposal.id \in DOMAIN proposals
            /\ proposals[loc[h].proposal.id] = loc[h].proposal
            /\ CurrentResult(loc[h].proposal.id) # 0
            /\ loc[h].proposalResult = CurrentResult(loc[h].proposal.id)
            /\ votes = PreVotes(h)
            /\ TalliesNotRefreshed(h)
C21_Witness ==
    \E h \in Handlers :
        /\ NoListingItem(h)
        /\ loc[h].recon = "created"
        /\ loc[h].outcome = PROCESSED
        /\ votes = <<>>
        /\ Len(proposals) = 1
        /\ Len(results) = 1

\* ------------------------------------------------------ recorded status
\* C22: the status finally recorded on the smsg message is the status
\* processProposalReceivedEvent returned; PARSING_FAILED is recorded only
\* when processing threw, also when a status write rejects.
C22_RecordedIsReturned ==
    \A h \in Handlers :
        (pc[h] = "done" /\ loc[h].outcome \in {PROCESSED, WAITING}) =>
            /\ smsgStatus[h] # PARSING_FAILED
            /\ smsgStatus[h] \in {loc[h].outcome, RECEIVED}
====
